---- MODULE Spec2Model ----
(***************************************************************************)
(* Model of the decision-and-monitoring engine of math_options_nse:         *)
(*   Core_Code/order_manager.py   OrderManager (registry, monitors, close)  *)
(*   Core_Code/strategy_engine.py run_loop (one action per loop iteration)  *)
(* A `with self._lock:` block is one atomic step; everything a thread does  *)
(* between two lock acquisitions touches only its own locals and external   *)
(* collaborators, so it is folded into the step that precedes it.           *)
(***************************************************************************)
EXTENDS Integers, Sequences, FiniteSets, TLC

(***************************************************************************)
(* Bound of the exploration                                                 *)
(***************************************************************************)
\* size of the explored runs once a trade exists: a trade created weighs 3,
\* a bar appended to nifty_today weighs 2, a run_loop thread started weighs 3
MaxWork == 6

\* bars the loop appends to nifty_today (one per iteration that gets a live
\* bar; each of them adds at most one row to oi_running)
MaxRows == 5

(***************************************************************************)
(* Values                                                                   *)
(***************************************************************************)
\* Python's None; a value that may be None is <<>> or <<v>>
None == <<>>

Some(v) == <<v>>

\* datetime.now().strftime(...): some non-null timestamp string
Timestamp == "ts"

\* identifiers as callers pass them: a number (a broker securityId) or a
\* string (an exchange symbol); the registry is keyed by str(identifier)
RawIdentifiers == {<<"int", 1>>, <<"str", 1>>, <<"str", 2>>}

\* the open requests explored: (identifier, qty, option_type, strike_price,
\* entry_price); the same identifier comes with two entry prices and sides
OpenRequests ==
    { <<<<"int", 1>>, 2, "CALL", 100, 100>>,
      <<<<"int", 1>>, 2, "put",  100, 105>>,
      <<<<"str", 2>>, 2, "PUT",  100, 100>> }

\* the open requests that are also explored as live trades
LiveRequests == { <<<<"int", 1>>, 2, "CALL", 100, 100>> }

\* exit prices the callers of close_trade pass
ExitPrices == {95}

\* bids an option chain may carry and prices the broker may quote
Bids == {0, 94, 112, 113}

\* what self.dhan may be: no broker, a DhanService whose client is None
\* (credentials incomplete), a DhanService with a connected client
DhanKinds == {"none", "unconnected", "connected"}

\* the monitor's exit thresholds, in percent of the entry price
TakeProfitPct == 13

StopLossPct == -6

VARIABLES
    dhan,         \* OrderManager.dhan
    trades,       \* the trade dicts ever created, by object identity
    open_trades,  \* OrderManager.open_trades: key -> trade object
    monitors,     \* the _monitor_trade threads, monitors[i] started with trades[i]
    trade_log,    \* rows of trade_log.csv
    log_headers,  \* header lines of trade_log.csv, 0 while the file does not exist
    broker,       \* the broker's view: orders placed and orders cancelled
    order_flag,   \* _order_manager.order_flag, "unset" while the attribute is missing
    nifty_today,  \* run_loop's nifty_today: its last row
    oi_running,   \* run_loop's oi_running: its length, Data_diff column, last row
    last,         \* the latest call of a public operation, with what it returned
    runner_thread,      \* _runner_thread: None or the thread it refers to
    runner_stop_event,  \* _runner_stop_event: None or the thread whose event it is
    loops,        \* the run_loop threads ever started, each with its stop event
    fetch,        \* the call of get_option_data in progress, if any
    calc,         \* the computation of a signal in progress, if any
    order_manager, \* what _order_manager names: "held", the OrderManager of the
                  \* variables above, or "fresh", one built by a later init_services
    lock,         \* OrderManager._lock: None, or the thread that holds it
    callers       \* the calls of paper_trade and close_trade in progress in
                  \* threads other than the monitors

\* no call of get_option_data in progress
NoFetch == [pc |-> "idle"]

\* no computation of a signal in progress
NoCalc == [pc |-> "idle"]

omvars == <<dhan, trades, open_trades, monitors, trade_log, log_headers, broker>>

loopvars == <<order_flag, nifty_today, oi_running>>

lockvars == <<lock, callers>>

runvars == <<runner_thread, runner_stop_event, loops>>

vars == <<dhan, trades, open_trades, monitors, trade_log, log_headers, broker,
          order_flag, nifty_today, oi_running, last,
          runner_thread, runner_stop_event, loops, fetch, calc, order_manager, lock, callers>>

\* the rows of trade_log.csv written before this process started
PriorRows ==
    LET closed == Cardinality({i \in 1..Len(trades) : trades[i].ExitTime # None})
    IN  IF Len(trade_log) > closed THEN Len(trade_log) - closed ELSE 0

\* the size of the run so far
Work == 3 * Len(trades) + 3 * PriorRows + 2 * nifty_today.len + 3 * Len(loops)

(***************************************************************************)
(* OrderManager                                                             *)
(***************************************************************************)
\* str(identifier)
Str(identifier) == <<"str", identifier[2]>>

\* option_type.upper()
Upper(option_type) ==
    CASE option_type = "call" -> "CALL"
      [] option_type = "put"  -> "PUT"
      [] OTHER                -> option_type

\* the dict built by paper_trade / live_trade
NewTrade(mode, identifier, qty, option_type, strike_price, entry_price, order_id) ==
    [ Mode        |-> mode,
      EntryTime   |-> Some(Timestamp),
      ExitTime    |-> None,
      Option      |-> <<strike_price, option_type>>,
      Type        |-> Upper(option_type),
      Qty         |-> qty,
      EntryPrice  |-> entry_price,
      ExitPrice   |-> None,
      PL          |-> None,
      Identifier  |-> Str(identifier),
      OrderID     |-> order_id,
      StrikePrice |-> strike_price ]

\* self.open_trades[key] = ref
Put(registry, key, ref) ==
    [k \in DOMAIN registry \cup {key} |-> IF k = key THEN ref ELSE registry[k]]

\* del self.open_trades[key]
Del(registry, key) == [k \in DOMAIN registry \ {key} |-> registry[k]]

\* the state a new _monitor_trade thread starts in: its argument, where it
\* stands, and its local ltp
NewMonitor(identifier) ==
    [id |-> Str(identifier), pc |-> "poll", ltp |-> None]

CanOpen == Work + 3 <= MaxWork

\* the registration both paper_trade and live_trade end with: insert under
\* the lock, then start the monitor thread
Register(trade) ==
    /\ trades' = Append(trades, trade)
    /\ open_trades' = Put(open_trades, trade.Identifier, Len(trades) + 1)
    /\ monitors' = Append(monitors, NewMonitor(trade.Identifier))

paper_trade(identifier, qty, option_type, strike_price, entry_price) ==
    /\ Register(NewTrade("PAPER", identifier, qty, option_type, strike_price,
                         entry_price, None))
    /\ UNCHANGED <<dhan, trade_log, log_headers, broker>>

\* placed: the broker accepted the order (a connected client only)
live_trade(identifier, qty, option_type, strike_price, entry_price, placed) ==
    /\ IF dhan = "none" \/ (dhan = "connected" /\ ~placed)
       THEN \* ValueError, or place_order raised: nothing registered
            UNCHANGED omvars
       ELSE LET order_id == IF dhan = "connected"
                            THEN Some(Len(trades) + 1) ELSE None
            IN  /\ Register(NewTrade("LIVE", identifier, qty, option_type,
                                     strike_price, entry_price, order_id))
                /\ broker' = IF dhan = "connected"
                             THEN [broker EXCEPT !.placed = @ \cup {Len(trades) + 1}]
                             ELSE broker
                /\ UNCHANGED <<dhan, trade_log, log_headers>>

\* the P/L of a CALL, whatever the type
ProfitLoss_call_only(type, entry_price, exit_price, qty) ==
    (exit_price - entry_price) * qty

\* trade["P/L"] as close_trade computes it
ProfitLoss(type, entry_price, exit_price, qty) ==
    IF type = "CALL"
    THEN (exit_price - entry_price) * qty
    ELSE (entry_price - exit_price) * qty

\* the trade dict once close_trade has filled in its exit fields
Finalized(trade, exit_price) ==
    [trade EXCEPT !.ExitTime = Some(Timestamp),
                  !.ExitPrice = Some(exit_price),
                  !.PL = Some(ProfitLoss(trade.Type, trade.EntryPrice,
                                         exit_price, trade.Qty))]

\* os.path.exists(TRADE_LOG_PATH): the file exists once it has been written
LogExists == log_headers > 0

\* _append_to_log that writes the header with every row
append_to_log_always_header(trade) ==
    /\ trade_log' = Append(trade_log, trade)
    /\ log_headers' = log_headers + 1

\* _append_to_log: the first write creates the file with its header, every
\* later write appends one row without a header
append_to_log(trade) ==
    /\ trade_log' = Append(trade_log, trade)
    /\ log_headers' = IF LogExists THEN log_headers ELSE 1

\* what close_trade returns: None, or the trade it closed
CloseResult(identifier) ==
    IF identifier \in DOMAIN open_trades THEN Some(open_trades[identifier]) ELSE None

\* close_trade that leaves the identifier in the registry
close_trade_without_del(identifier, exit_price, cancelled) ==
    IF identifier \notin DOMAIN open_trades
    THEN UNCHANGED <<dhan, trades, open_trades, trade_log, log_headers, broker>>
    ELSE LET ref   == open_trades[identifier]
             trade == Finalized(trades[ref], exit_price)
         IN  /\ trades' = [trades EXCEPT ![ref] = trade]
             /\ broker' = IF trade.Mode = "LIVE" /\ dhan = "connected" /\ cancelled
                          THEN [broker EXCEPT !.cancelled = @ \cup {trade.OrderID[1]}]
                          ELSE broker
             /\ append_to_log(trade)
             /\ UNCHANGED <<dhan, open_trades>>

\* close_trade that looks the identifier up as str(identifier)
close_trade_str_key(identifier, exit_price, cancelled) ==
    IF Str(identifier) \notin DOMAIN open_trades
    THEN UNCHANGED <<dhan, trades, open_trades, trade_log, log_headers, broker>>
    ELSE LET ref   == open_trades[Str(identifier)]
             trade == Finalized(trades[ref], exit_price)
         IN  /\ trades' = [trades EXCEPT ![ref] = trade]
             /\ broker' = IF trade.Mode = "LIVE" /\ dhan = "connected" /\ cancelled
                          THEN [broker EXCEPT !.cancelled = @ \cup {trade.OrderID[1]}]
                          ELSE broker
             /\ append_to_log(trade)
             /\ open_trades' = Del(open_trades, Str(identifier))
             /\ UNCHANGED dhan

\* close_trade that lets an exception of dhan.exit_order out
close_trade_exit_raises(identifier, exit_price, cancelled) ==
    IF identifier \notin DOMAIN open_trades
    THEN UNCHANGED <<dhan, trades, open_trades, trade_log, log_headers, broker>>
    ELSE LET ref   == open_trades[identifier]
             trade == Finalized(trades[ref], exit_price)
         IN  /\ trades' = [trades EXCEPT ![ref] = trade]
             /\ broker' = IF trade.Mode = "LIVE" /\ dhan = "connected" /\ cancelled
                          THEN [broker EXCEPT !.cancelled = @ \cup {trade.OrderID[1]}]
                          ELSE broker
             /\ IF trade.Mode = "LIVE" /\ dhan = "connected" /\ ~cancelled
                THEN UNCHANGED <<trade_log, log_headers, open_trades>>
                ELSE /\ append_to_log(trade)
                     /\ open_trades' = Del(open_trades, identifier)
             /\ UNCHANGED dhan

\* close_trade(identifier, exit_price) with a non-null exit price.
\* cancelled: dhan.exit_order returned normally (a connected client only)
close_trade(identifier, exit_price, cancelled) ==
    IF identifier \notin DOMAIN open_trades
    THEN UNCHANGED <<dhan, trades, open_trades, trade_log, log_headers, broker>>
    ELSE LET ref   == open_trades[identifier]
             trade == Finalized(trades[ref], exit_price)
         IN  /\ trades' = [trades EXCEPT ![ref] = trade]
             /\ broker' = IF trade.Mode = "LIVE" /\ dhan = "connected" /\ cancelled
                          THEN [broker EXCEPT !.cancelled = @ \cup {trade.OrderID[1]}]
                          ELSE broker
             /\ append_to_log(trade)
             /\ open_trades' = Del(open_trades, identifier)
             /\ UNCHANGED dhan

(***************************************************************************)
(* Option chain (the DataFrame get_option_data returns, indexed by strike)  *)
(***************************************************************************)
\* (CALL_value_Bid, put_value_Bid) of a chain; every strike of a modelled
\* chain carries the same pair
BidPairs == {<<0, 94>>, <<94, 112>>, <<112, 113>>, <<113, 0>>}

\* the strikes a chain may list (an empty index is the empty DataFrame)
ChainIndexes == {{}, {200}, {100, 200}}

\* which side the open interest of a chain leans to
Shapes == {"call", "put", "mixed"}

OptionChains ==
    [index : ChainIndexes, shape : Shapes, bids : BidPairs]

\* oi_df.loc[strike, "CALL_value_Bid"] / oi_df.loc[strike, "put_value_Bid"]
ChainBid(oi_df, type) == IF type = "CALL" THEN oi_df.bids[1] ELSE oi_df.bids[2]

(***************************************************************************)
(* _monitor_trade                                                           *)
(***************************************************************************)
\* what dhan.get_ltp may give: an exception, None, or a price; a client that
\* is not connected returns None, and a quote of 0 is returned as None
Quotes ==
    IF dhan = "connected"
    THEN {[kind |-> "raise", v |-> 0], [kind |-> "none", v |-> 0]}
         \cup {[kind |-> "price", v |-> b] : b \in Bids \ {0}}
    ELSE {[kind |-> "none", v |-> 0]}

\* what the fallback get_option_data() may give: an exception or a chain
ChainResults ==
    {[kind |-> "raise"]} \cup {[kind |-> "ok", oi_df |-> c] : c \in OptionChains}

\* the monitor reads the index and the bids of a chain only
MonitorChainResults ==
    {c \in ChainResults : c.kind = "ok" => c.oi_df.shape = "mixed"}

\* lines 98-116: the price of this poll: kind "price" with the value, kind
\* "none" when ltp stays None, kind "raise" when the fetch failed
FetchLtp(trade, quote, chain) ==
    IF dhan # "none" /\ quote.kind = "raise" THEN [kind |-> "raise", v |-> 0]
    ELSE IF dhan # "none" /\ quote.kind = "price" THEN quote
    ELSE IF chain.kind = "raise" THEN [kind |-> "raise", v |-> 0]
    ELSE IF trade.Type = "CALL" /\ trade.StrikePrice \in chain.oi_df.index
         THEN [kind |-> "price", v |-> ChainBid(chain.oi_df, "CALL")]
    ELSE IF trade.Type = "PUT" /\ trade.StrikePrice \in chain.oi_df.index
         THEN [kind |-> "price", v |-> ChainBid(chain.oi_df, "PUT")]
    ELSE [kind |-> "none", v |-> 0]

\* the check of line 118 without the zero test on ltp
NoPrice_none_only(ltp, entry_price) == ltp.kind = "none" \/ entry_price = 0

\* `not ltp or not trade["Entry Price"]`
NoPrice(ltp, entry_price) == ltp.kind = "none" \/ ltp.v = 0 \/ entry_price = 0

\* the thresholds taken strictly
ThresholdHit_strict(ltp, entry_price) ==
    \/ (ltp - entry_price) * 100 > TakeProfitPct * entry_price
    \/ (ltp - entry_price) * 100 < StopLossPct * entry_price

\* change_pct >= 13 or change_pct <= -6, with
\* change_pct = ((ltp - entry) / entry) * 100 and entry > 0
ThresholdHit(ltp, entry_price) ==
    \/ (ltp - entry_price) * 100 >= TakeProfitPct * entry_price
    \/ (ltp - entry_price) * 100 <= StopLossPct * entry_price

\* what one pass of the while loop does with the price it fetched
PollOutcome(trade, ltp) ==
    IF ltp.kind = "raise" THEN "failed"
    ELSE IF NoPrice(ltp, trade.EntryPrice) THEN "no price"
    ELSE IF ThresholdHit(ltp.v, trade.EntryPrice) THEN "hit"
    ELSE "hold"

\* where a monitor that is not done and not about to call close_trade
\* stands: at the top of the loop, in the sleep of a pass that got no price
\* (lines 115, 119), or in the sleep of a pass whose price hit no threshold
\* (line 128)
Polling == {"poll", "sleep_noprice", "sleep_hold"}

\* where the pass leaves the thread: line 115, 119, 125 or 128
AfterPoll(outcome) ==
    CASE outcome = "failed"   -> "sleep_noprice"
      [] outcome = "no price" -> "sleep_noprice"
      [] outcome = "hit"      -> "close"
      [] outcome = "hold"     -> "sleep_hold"

\* one pass of the while loop up to the close_trade call (lines 92-128):
\* the end of the sleep, the registry read under the lock, the fetch, the
\* decision
MonitorPoll(m) ==
    /\ monitors[m].pc \in Polling
    /\ IF monitors[m].id \notin DOMAIN open_trades
       THEN monitors' = [monitors EXCEPT ![m].pc = "done"]
       ELSE \E quote \in Quotes, chain \in MonitorChainResults :
              LET trade   == trades[open_trades[monitors[m].id]]
                  ltp     == FetchLtp(trade, quote, chain)
                  outcome == PollOutcome(trade, ltp)
              IN  monitors' =
                    [monitors EXCEPT ![m].pc = AfterPoll(outcome),
                                     ![m].ltp = IF ltp.kind = "price"
                                                THEN Some(ltp.v) ELSE None]
    /\ UNCHANGED <<dhan, trades, open_trades, trade_log, log_headers, broker, last>>
    /\ UNCHANGED <<loopvars, runvars, fetch, calc, order_manager, lockvars>>

\* lines 125-126: self.close_trade(identifier, ltp); break
MonitorClose(m) ==
    /\ monitors[m].pc = "close"
    /\ \E cancelled \in BOOLEAN :
         close_trade(monitors[m].id, monitors[m].ltp[1], cancelled)
    /\ monitors' = [monitors EXCEPT ![m].pc = "done"]
    /\ last' = [op |-> "close_trade", by |-> Some(m), id |-> monitors[m].id,
                ret |-> CloseResult(monitors[m].id)]
    /\ UNCHANGED <<loopvars, runvars, fetch, calc, order_manager, lockvars>>

(***************************************************************************)
(* Callers other than the control loop (the public OrderManager operations) *)
(***************************************************************************)
ManualPaperTrade ==
    \E r \in OpenRequests :
         /\ CanOpen
         /\ paper_trade(r[1], r[2], r[3], r[4], r[5])
         /\ last' = [op |-> "paper_trade", by |-> None, id |-> r[1],
                     ret |-> Some(Len(trades) + 1)]
         /\ UNCHANGED <<loopvars, runvars, fetch, calc, order_manager, lockvars>>

ManualLiveTrade ==
    \E r \in LiveRequests, placed \in BOOLEAN :
         /\ CanOpen
         /\ live_trade(r[1], r[2], r[3], r[4], r[5], placed)
         /\ last' = [op |-> "live_trade", by |-> None, id |-> r[1],
                     ret |-> IF Len(trades') > Len(trades)
                             THEN Some(Len(trades')) ELSE None]
         /\ UNCHANGED <<loopvars, runvars, fetch, calc, order_manager, lockvars>>

ManualCloseTrade ==
    \E identifier \in RawIdentifiers, exit_price \in ExitPrices,
       cancelled \in BOOLEAN :
         /\ close_trade(identifier, exit_price, cancelled)
         /\ UNCHANGED monitors
         /\ last' = [op |-> "close_trade", by |-> None, id |-> identifier,
                     ret |-> CloseResult(identifier)]
         /\ UNCHANGED <<loopvars, runvars, fetch, calc, order_manager, lockvars>>

(***************************************************************************)
(* StrategyEngine and the helpers of run_loop                               *)
(***************************************************************************)
\* a time of day, in seconds
T(h, m, s) == (h * 60 + m) * 60 + s

\* the times of day at which iterations are explored: each threshold of
\* run_loop and the second before or after it
Clock ==
    { T(9, 25, 59), T(11, 25, 59), T(11, 26, 0), T(14, 25, 0), T(14, 25, 1),
      T(14, 59, 59), T(15, 0, 0), T(15, 25, 1) }

\* line 285
MarketHours(now) == now >= T(9, 26, 0) /\ now <= T(15, 25, 0)

\* line 372
OrderWindow(now) == now >= T(11, 26, 0) /\ now <= T(14, 25, 0)

\* line 405
CloseTime(now) == now >= T(15, 0, 0)

window_size == 5

MAX_RETRIES == 2

RETRY_DELAY == 120

Sign(x) == IF x > 0 THEN 1 ELSE IF x < 0 THEN -1 ELSE 0

\* what get_nifty_live() may return: an empty Series or a live bar
LiveResults ==
    {[kind |-> "empty"]}
    \cup {[kind |-> "ok", OPEN |-> 105, LTP |-> 101],
          [kind |-> "ok", OPEN |-> 95, LTP |-> 99]}

\* lines 289-303: the last row of nifty_today once the live bar is appended
\* and add_indicators has run; Stoc_Signal is sign(Close.diff().fillna(0))
AppendBar(today, live) ==
    [ len         |-> today.len + 1,
      Close       |-> Some(live.LTP),
      Stoc_Signal |-> IF today.Close = None THEN 0
                      ELSE Sign(live.LTP - today.Close[1]) ]

\* the open-interest columns of a chain at a strike, by the side the chain
\* leans to ("mixed": the interest leans to puts, its change to calls)
ChainRow(shape, strike) ==
    LET lean  == [ODIN_hi |-> IF strike = 100 THEN 8 ELSE 10,
                  ODIN_lo |-> IF strike = 100 THEN 5 ELSE 3,
                  DIFF_hi |-> IF strike = 100 THEN 20 ELSE 70,
                  DIFF_lo |-> 20]
    IN  CASE shape = "call" ->
               [Call_ODIN |-> lean.ODIN_lo, PUT_ODIN |-> lean.ODIN_hi,
                Call_OI_Diff |-> lean.DIFF_lo, PUT_OI_DIFF |-> lean.DIFF_hi]
          [] shape = "put" ->
               [Call_ODIN |-> lean.ODIN_hi, PUT_ODIN |-> lean.ODIN_lo,
                Call_OI_Diff |-> lean.DIFF_hi, PUT_OI_DIFF |-> lean.DIFF_lo]
          [] shape = "mixed" ->
               [Call_ODIN |-> lean.ODIN_hi, PUT_ODIN |-> lean.ODIN_lo,
                Call_OI_Diff |-> lean.DIFF_lo, PUT_OI_DIFF |-> lean.DIFF_hi]

\* the securityId / identifier columns
ChainIdentifier(strike, type) ==
    IF type = "CALL" THEN <<"int", 1>> ELSE <<"str", 2>>

RECURSIVE SumOver(_, _, _)
\* temp_oi[column].sum()
SumOver(oi_df, column, index) ==
    IF index = {} THEN 0
    ELSE LET strike == CHOOSE x \in index : TRUE
         IN  ChainRow(oi_df.shape, strike)[column]
             + SumOver(oi_df, column, index \ {strike})

\* temp_oi[column].idxmax(): the first strike holding the largest value
IdxMax(oi_df, column) ==
    CHOOSE x \in oi_df.index :
      \A y \in oi_df.index :
         \/ ChainRow(oi_df.shape, y)[column] < ChainRow(oi_df.shape, x)[column]
         \/ (ChainRow(oi_df.shape, y)[column] = ChainRow(oi_df.shape, x)[column]
             /\ x <= y)

\* lines 315-324: "<strike> <value>", as its two parts
OdinMax(oi_df, column) ==
    <<IdxMax(oi_df, column), ChainRow(oi_df.shape, IdxMax(oi_df, column))[column]>>

\* new_row["PCR"] > 1.25, PCR being put_sum / call_sum, or inf when call_sum is 0
PcrAbove(put_sum, call_sum) ==
    IF call_sum = 0 THEN TRUE
    ELSE IF call_sum > 0 THEN 4 * put_sum > 5 * call_sum
    ELSE 4 * put_sum < 5 * call_sum

PcrBelow_zero_ratio(put_sum, call_sum) ==
    IF call_sum = 0 THEN TRUE
    ELSE IF call_sum > 0 THEN 4 * put_sum < 3 * call_sum
    ELSE 4 * put_sum > 3 * call_sum

\* new_row["PCR"] < 0.75
PcrBelow(put_sum, call_sum) ==
    IF call_sum = 0 THEN FALSE
    ELSE IF call_sum > 0 THEN 4 * put_sum < 3 * call_sum
    ELSE 4 * put_sum > 3 * call_sum

\* lines 331-341
Decision(put_max, call_max, put_sum, call_sum) ==
    IF put_max - call_max > 0 /\ put_sum - call_sum > 0
       /\ PcrAbove(put_sum, call_sum)
    THEN "CALL"
    ELSE IF put_max - call_max < 0 /\ put_sum - call_sum < 0
            /\ PcrBelow(put_sum, call_sum)
    THEN "PUT"
    ELSE "NEUTRAL"

\* the last row of add_indicators(nifty_hist_data)
HistTail ==
    [Vwap |-> 100, Rolling_Vwap |-> 100, Upper_Bound |-> 110,
     Lower_Bound |-> 90, MVA7 |-> 100]

YesNo(b) == IF b THEN "YES" ELSE "NO"

\* params_table_nifty: key -> (Bear%ge, Bull%ge)
params_table_nifty ==
    [k \in {<<"YES", "YES", "NO", "NO", "YES">>, <<"NO", "NO", "NO", "NO", "NO">>}
       |-> IF k[1] = "YES" THEN <<40, 60>> ELSE <<60, 40>>]

\* lines 102-119: the key of the five comparisons of today's open with the
\* last row of the history
Prams(dp, today_open) ==
    << YesNo(today_open > dp.Vwap),
       YesNo(today_open > dp.Rolling_Vwap),
       YesNo(today_open > dp.Upper_Bound),
       YesNo(today_open < dp.Lower_Bound),
       YesNo(today_open > dp.MVA7) >>

day_today_params_in_or_above(table, hist_tail, open) ==
    IF hist_tail = None \/ open = None THEN <<"Bullish", 50>>
    ELSE LET pr == Prams(hist_tail[1], open[1])
         IN  IF pr \in DOMAIN table
             THEN IF table[pr][1] >= 50
                  THEN <<"Bearish", table[pr][1]>>
                  ELSE <<"Bullish", table[pr][2]>>
             ELSE <<"Bullish", 50>>

\* StrategyEngine.day_today_params with the table it reads: the label and
\* its percentage. hist_tail is None when hist_df is None or empty, open is
\* None when the snapshot has no OPEN
day_today_params_in(table, hist_tail, open) ==
    IF hist_tail = None \/ open = None THEN <<"Bullish", 50>>
    ELSE LET pr == Prams(hist_tail[1], open[1])
         IN  IF pr \in DOMAIN table
             THEN IF table[pr][1] > 50
                  THEN <<"Bearish", table[pr][1]>>
                  ELSE <<"Bullish", table[pr][2]>>
             ELSE <<"Bullish", 50>>

\* StrategyEngine.day_today_params as run_loop calls it at line 344
day_today_params(dp, today_open) ==
    day_today_params_in(params_table_nifty, Some(dp), Some(today_open))

RECURSIVE SlopeNumerator(_, _)
\* the sign-bearing part of the least-squares slope of arr over 0..n-1:
\* the sum of (2 i - (n - 1)) * arr[i]
SlopeNumerator(arr, i) ==
    IF i > Len(arr) THEN 0
    ELSE (2 * (i - 1) - (Len(arr) - 1)) * arr[i] + SlopeNumerator(arr, i + 1)

\* StrategyEngine.calculate_trend
calculate_trend(arr) ==
    IF Len(arr) < 2 THEN "insufficient data"
    ELSE IF SlopeNumerator(arr, 1) > 0 THEN "up" ELSE "down"

\* arr[-n:]
LastN(arr, n) ==
    IF Len(arr) <= n THEN arr ELSE SubSeq(arr, Len(arr) - n + 1, Len(arr))

\* lines 305-349: oi_running once the row of this iteration is appended
\* (the Data_diff column is kept over the trend window, the other columns
\* for the last row, the only one run_loop reads)
AppendRow(running, temp_oi, today_open) ==
    LET put_sum  == SumOver(temp_oi, "PUT_OI_DIFF", temp_oi.index)
        call_sum == SumOver(temp_oi, "Call_OI_Diff", temp_oi.index)
        call_max == OdinMax(temp_oi, "Call_ODIN")
        put_max  == OdinMax(temp_oi, "PUT_ODIN")
        diffs    == Append(running.Data_diff, put_sum - call_sum)
    IN  [ len           |-> running.len + 1,
          Data_diff     |-> LastN(diffs, window_size),
          CALL_ODIN_MAX |-> call_max,
          PUT_ODIN_MAX  |-> put_max,
          Decision      |-> Decision(put_max[2], call_max[2], put_sum, call_sum),
          day_today     |-> day_today_params(HistTail, today_open),
          trend_data    |-> IF running.len + 1 >= window_size
                            THEN calculate_trend(LastN(diffs, window_size))
                            ELSE "" ]

\* lines 375-387
OptionType(running, today) ==
    IF /\ running.Decision = "CALL"
       /\ running.trend_data = "up"
       /\ running.day_today[1] = "Bullish"
       /\ today.Stoc_Signal = 1
    THEN "CALL"
    ELSE IF /\ running.Decision = "PUT"
            /\ running.trend_data = "down"
            /\ running.day_today[1] = "Bearish"
            /\ today.Stoc_Signal = -1
    THEN "PUT"
    ELSE "None"

(***************************************************************************)
(* run_loop                                                                 *)
(***************************************************************************)
\* what the loop's get_option_data() may return, once its retries are over:
\* a chain, or the empty DataFrame (a chain that lists no strike)
LoopChains ==
    {c \in OptionChains :
       /\ c.bids = <<94, 112>>
       /\ c.index # {200}
       /\ c.shape # (IF c.index = {} THEN "call" ELSE "mixed")
       /\ (c.index = {} => c.shape = "mixed")}

\* enter_order(identifier, price, option_type, strike, live_mode): the lot
\* size is 2; an exception of live_trade leaves everything as it was
enter_order(identifier, price, strike_type, strike_price, live_mode, placed) ==
    IF live_mode
    THEN live_trade(identifier, 2, strike_type, strike_price, price, placed)
    ELSE paper_trade(identifier, 2, strike_type, strike_price, price)

\* whether enter_order raised (live_trade without a broker, or place_order failed)
EnterOrderRaises(live_mode, placed) ==
    live_mode /\ (dhan = "none" \/ (dhan = "connected" /\ ~placed))

\* line 373: reading order_flag while the attribute is missing raises
\* AttributeError, which ends the iteration at line 419
OrderRaises(now) == OrderWindow(now) /\ order_flag = "unset"

\* lines 371-402, reached with the row of this iteration in oi_running'
OrderStep(now, temp_oi) ==
    IF \/ ~OrderWindow(now)
       \/ order_flag # "False"
       \/ OptionType(oi_running', nifty_today') = "None"
    THEN UNCHANGED <<omvars, order_flag>>
    ELSE LET option_type == OptionType(oi_running', nifty_today')
             strike == IF option_type = "CALL"
                       THEN oi_running'.CALL_ODIN_MAX[1]
                       ELSE oi_running'.PUT_ODIN_MAX[1]
         IN  \E live_mode \in BOOLEAN, placed \in BOOLEAN :
               /\ CanOpen
               /\ enter_order(ChainIdentifier(strike, option_type),
                              ChainBid(temp_oi, option_type), option_type,
                              strike, live_mode, placed)
               /\ order_flag' = IF EnterOrderRaises(live_mode, placed)
                                THEN order_flag ELSE "True"

\* lines 404-417, reached when line 373 raised nothing. OrderManager has no
\* close_paper_trade: the call at line 413 raises AttributeError, the handler
\* at line 416 raises it again, and the iteration ends at line 419 with no
\* trade closed and line 417 not reached.
SweepRaises(now) == CloseTime(now) /\ DOMAIN open_trades' # {}

\* what the iteration logs at line 420, "" when it ends normally
LoopError(now) ==
    IF OrderRaises(now) \/ SweepRaises(now) THEN "AttributeError" ELSE ""

\* whether the exploration budget lets the loop append one more row
CanAppend ==
    /\ nifty_today.len < MaxRows
    /\ (trades = <<>> \/ Work + 2 <= MaxWork)

\* one iteration of the while loop inside market hours (lines 283-423)
Tick ==
    /\ CanAppend
    /\ UNCHANGED <<runvars, fetch, calc, order_manager, lockvars>>
    /\ {t \in Clock : MarketHours(t)} # {}
    /\ \E live \in LiveResults :
         IF live.kind = "empty"
         THEN \* KeyError at line 292
              /\ UNCHANGED <<omvars, loopvars>>
              /\ \E now \in {t \in Clock : MarketHours(t)} :
                    last' = [op |-> "tick", by |-> None, id |-> None,
                             ret |-> None, window |-> FALSE, eod |-> FALSE,
                             error |-> "KeyError", late |-> CloseTime(now)]
         ELSE \E temp_oi \in LoopChains :
              IF temp_oi.index = {}
              THEN \* KeyError at line 306
                   /\ nifty_today' = AppendBar(nifty_today, live)
                   /\ UNCHANGED <<omvars, order_flag, oi_running>>
                   /\ \E now \in {t \in Clock : MarketHours(t)} :
                         last' = [op |-> "tick", by |-> None, id |-> None,
                                  ret |-> None, window |-> FALSE,
                                  eod |-> FALSE, error |-> "KeyError",
                                  late |-> CloseTime(now)]
              ELSE \E now \in {t \in Clock : MarketHours(t)},
                      retries \in {0, MAX_RETRIES} :
                     \* the time read at line 372, after the retries of line 305
                     LET then == now + retries * RETRY_DELAY
                     IN  /\ nifty_today' = AppendBar(nifty_today, live)
                         /\ oi_running' = AppendRow(oi_running, temp_oi, live.OPEN)
                         /\ OrderStep(then, temp_oi)
                         /\ last' = [op |-> "tick", by |-> None, id |-> None,
                                     ret |-> None, window |-> OrderWindow(then),
                                     eod |-> CloseTime(then),
                                     error |-> LoopError(then),
                                     late |-> CloseTime(then)]

\* one iteration outside market hours (lines 424-425): sleep and look again
IdleTick ==
    /\ {t \in Clock : ~MarketHours(t)} # {}
    /\ UNCHANGED vars

(***************************************************************************)
(* Specification                                                            *)
(***************************************************************************)
InitProgram ==
    /\ dhan \in DhanKinds
    /\ trades = <<>>
    /\ open_trades = [k \in {} |-> 0]
    /\ monitors = <<>>
    /\ trade_log = <<>>
    /\ log_headers = 0
    /\ broker = [placed |-> {}, cancelled |-> {}]
    /\ order_flag = "unset"
    /\ nifty_today = [len |-> 0, Close |-> Some(100), Stoc_Signal |-> 0]
    /\ oi_running = [len |-> 0, Data_diff |-> <<>>, CALL_ODIN_MAX |-> <<0, 0>>,
                     PUT_ODIN_MAX |-> <<0, 0>>, Decision |-> "",
                     day_today |-> <<"", 0>>, trend_data |-> ""]
    /\ last = [op |-> "init", by |-> None, id |-> None, ret |-> None]
    /\ runner_thread = None
    /\ runner_stop_event = None
    /\ loops = <<>>
    /\ order_manager = "held"
    /\ lock = None
    /\ callers = <<>>

Init == InitProgram /\ fetch = NoFetch /\ calc = NoCalc

Next ==
    \/ ManualPaperTrade
    \/ ManualLiveTrade
    \/ ManualCloseTrade
    \/ \E m \in 1..Len(monitors) : MonitorPoll(m)
    \/ \E m \in 1..Len(monitors) : MonitorClose(m)
    \/ Tick
    \/ IdleTick

Spec == Init /\ [][Next]_vars

(***************************************************************************)
(* Properties                                                               *)
(***************************************************************************)
\* a step that is a call of close_trade: the call recorded in last'
CloseCall == last' # last /\ last'.op = "close_trade"

\* the trades that have been through close_trade
Closed == {i \in 1..Len(trades) : trades[i].ExitTime # None}

C2_CloseAbsentIsNoOp ==
    [][(CloseCall /\ last'.id \notin DOMAIN open_trades) =>
          /\ last'.ret = None
          /\ UNCHANGED <<trades, open_trades, trade_log, broker>>]_vars

\* the second of two manual close_trade calls on the same identifier: it
\* returned None and the log still has the one row of the first call
C2_Witness ==
    /\ last.op = "close_trade" /\ last.by = None /\ last.ret = None
    /\ Len(trade_log) = 1
    /\ trade_log[1].Identifier = last.id

\* a step in which monitor m went through one pass of its loop with its
\* identifier in the registry
PollOf(m) ==
    /\ monitors[m].pc \in Polling
    /\ monitors'[m] # monitors[m]
    /\ monitors[m].id \in DOMAIN open_trades

\* the percentage change from entry to price is >= +13 or <= -6
PctBreach(price, entry) ==
    \/ (price - entry) * 100 >= 13 * entry
    \/ (price - entry) * 100 <= (-6) * entry

\* the pass of monitor m ended with a price in hand
GotPrice(m) == monitors'[m].ltp # None /\ monitors'[m].ltp # Some(0)

\* C8: a pass of a monitor that obtains a price goes on to close_trade exactly
\* when the change of that price from the entry price of the trade it read is
\* >= +13% or <= -6%, and sleeps otherwise; the close_trade call a monitor
\* makes comes after such a pass and closes the trade at that price
C8_CloseAtFirstBreach ==
    [][\A m \in 1..Len(monitors) :
         /\ (PollOf(m) /\ GotPrice(m)) =>
              LET entry == trades[open_trades[monitors[m].id]].EntryPrice
              IN  IF PctBreach(monitors'[m].ltp[1], entry)
                  THEN monitors'[m].pc = "close"
                  ELSE monitors'[m].pc = "sleep_hold"
         /\ (CloseCall /\ last'.by = Some(m)) =>
              /\ monitors[m].pc = "close"
              /\ monitors[m].ltp # None
              /\ last'.ret # None =>
                   /\ trades'[last'.ret[1]].ExitPrice = monitors[m].ltp
                   /\ trade_log' = Append(trade_log, trades'[last'.ret[1]])]_vars

\* a monitor closed a trade entered at 100 at the price 113
C8_Witness ==
    /\ last.op = "close_trade" /\ last.by # None /\ last.ret # None
    /\ trades[last.ret[1]].EntryPrice = 100
    /\ trades[last.ret[1]].ExitPrice = Some(113)
    /\ trade_log[Len(trade_log)] = trades[last.ret[1]]

\* C9: every row of the trade log carries P/L = (exit - entry) * qty for a
\* CALL and (entry - exit) * qty for a PUT, from the row's own fields
C9_ProfitLossOfLog ==
    \A i \in 1..Len(trade_log) :
       LET row == trade_log[i]
       IN  /\ row.ExitPrice # None /\ row.PL # None
           /\ row.Type \in {"CALL", "PUT"}
           /\ row.Type = "CALL" =>
                row.PL[1] = (row.ExitPrice[1] - row.EntryPrice) * row.Qty
           /\ row.Type = "PUT" =>
                row.PL[1] = (row.EntryPrice - row.ExitPrice[1]) * row.Qty

\* a trade opened with option type "put" at 105 was closed at 95: P/L 20
C9_Witness ==
    \E i \in 1..Len(trade_log) :
       /\ trade_log[i].Option[2] = "put"
       /\ trade_log[i].EntryPrice = 105
       /\ trade_log[i].ExitPrice = Some(95)
       /\ trade_log[i].PL = Some(20)

\* C10: a pass of a monitor that ends with no price (None, or a price of 0)
\* leaves the registry, the trades and the log as they were and puts the
\* monitor to sleep; no monitor stands before close_trade without a price
C10_NoCloseWithoutPrice ==
    /\ [][\A m \in 1..Len(monitors) :
            (PollOf(m) /\ ~GotPrice(m)) =>
               /\ monitors'[m].pc = "sleep_noprice"
               /\ UNCHANGED <<trades, open_trades, trade_log>>]_vars
    /\ [](\A m \in 1..Len(monitors) :
            monitors[m].pc = "close" =>
               monitors[m].ltp # None /\ monitors[m].ltp # Some(0))

\* a monitor sleeps after a pass that got no price, its trade still open
C10_Witness ==
    \E m \in 1..Len(monitors) :
       /\ monitors[m].pc = "sleep_noprice"
       /\ monitors[m].ltp = None
       /\ monitors[m].id \in DOMAIN open_trades
       /\ trade_log = <<>>

\* a step that is an iteration of run_loop which got its live bar and its
\* option chain, and so went on to the order window and the 15:00 check
RowTick == last'.op = "tick" /\ oi_running'.len = oi_running.len + 1

\* C3: an iteration at or past 15:00 closes every open trade: after it the
\* registry is empty and the log has one more row for each of them
C3_SweepClosesAll ==
    [][(RowTick /\ last'.eod) =>
          /\ DOMAIN open_trades' = {}
          /\ Len(trade_log') = Len(trade_log) + Cardinality(DOMAIN open_trades)
          /\ \A k \in DOMAIN open_trades :
                trades'[open_trades[k]].ExitTime # None]_vars

\* an iteration at or past 15:00 has ended with AttributeError and a trade
\* that was open before it is still registered, with nothing logged
C3_Witness ==
    /\ last.op = "tick" /\ last.eod /\ last.error = "AttributeError"
    /\ DOMAIN open_trades # {}
    /\ trade_log = <<>>

\* C4: an iteration at or past 15:00 leaves order_flag False, with or
\* without open trades
C4_SweepClearsFlag ==
    [][(RowTick /\ last'.eod) => order_flag' = "False"]_vars

\* an iteration at or past 15:00 has ended normally, no trade being open,
\* and order_flag is not False
C4_Witness ==
    /\ last.op = "tick" /\ last.eod /\ last.error = ""
    /\ DOMAIN open_trades = {}
    /\ order_flag # "False"

\* C5: after a close_trade call of a monitor that closed a trade and left
\* the registry empty, order_flag is False
C5_MonitorExitClearsFlag ==
    (/\ last.op = "close_trade" /\ last.by # None /\ last.ret # None
     /\ DOMAIN open_trades = {})
      => order_flag = "False"

\* a monitor has closed the only open trade and order_flag is not False
C5_Witness ==
    /\ last.op = "close_trade" /\ last.by # None /\ last.ret # None
    /\ DOMAIN open_trades = {}
    /\ Len(trade_log) = 1
    /\ order_flag # "False"

\* C6: an iteration inside the order window, with order_flag not set and
\* the CALL or the PUT condition true of the row and bar just appended,
\* registers a trade of that type and sets order_flag
C6_EntryOnConfluence ==
    [][(/\ RowTick /\ last'.window
        /\ order_flag # "True"
        /\ OptionType(oi_running', nifty_today') # "None") =>
          /\ Len(trades') = Len(trades) + 1
          /\ trades'[Len(trades')].Type = OptionType(oi_running', nifty_today')
          /\ trades'[Len(trades')].Identifier \in DOMAIN open_trades'
          /\ order_flag' = "True"]_vars

\* an iteration inside the order window whose row and bar satisfy the CALL
\* condition has ended with AttributeError and no trade
C6_Witness ==
    /\ last.op = "tick" /\ last.window /\ last.error = "AttributeError"
    /\ OptionType(oi_running, nifty_today) = "CALL"
    /\ trades = <<>>
    /\ order_flag = "unset"

\* a step in which monitor m went through one pass of its loop
Polled(m) == monitors[m].pc \in Polling /\ monitors'[m] # monitors[m]

\* the trade monitor m was started for is the one held in the registry
Registered(m) == \E k \in DOMAIN open_trades : open_trades[k] = m

\* C11: a monitor is one-shot: a pass that finds the trade it was started
\* for gone from the registry ends the monitor, the close_trade call of a
\* monitor ends it, and a monitor that has ended stays ended
C11_MonitorOneShot ==
    [][\A m \in 1..Len(monitors) :
         /\ (Polled(m) /\ ~Registered(m)) => monitors'[m].pc = "done"
         /\ (CloseCall /\ last'.by = Some(m)) => monitors'[m].pc = "done"
         /\ monitors[m].pc = "done" => monitors'[m].pc = "done"]_vars

\* the trade of monitor 1 (entered at 100) is closed and logged, another
\* trade is open under the same identifier, and monitor 1 sleeps on a
\* price of 113: a price that is a breach for its own trade, so one it
\* polled for the other trade
C11_Witness ==
    /\ Len(trades) = 2
    /\ trades[1].ExitTime # None /\ trades[1].EntryPrice = 100
    /\ monitors[1].id \in DOMAIN open_trades
    /\ open_trades[monitors[1].id] = 2
    /\ monitors[1].pc = "sleep_hold" /\ monitors[1].ltp = Some(113)

(***************************************************************************)
(* close_trade with its failures: an exit price of None (float(None) raises *)
(* TypeError at line 140) and a log write that fails (to_csv raises at line *)
(* 153). Nothing inside close_trade catches either.                         *)
(***************************************************************************)
\* exit prices as any caller may pass them: None or a number
OptionalExitPrices == {None} \cup {Some(p) : p \in ExitPrices}

\* the exception close_trade raises, "" when it returns
CloseError(identifier, exit_price, written) ==
    IF identifier \notin DOMAIN open_trades THEN ""
    ELSE IF exit_price = None THEN "TypeError"
    ELSE IF ~written THEN "OSError"
    ELSE ""

\* close_trade(identifier, exit_price) on every path. exit_price: None or
\* <<price>>; cancelled: dhan.exit_order returned normally; written:
\* _append_to_log returned normally
close_trade_or_raise(identifier, exit_price, cancelled, written) ==
    IF identifier \notin DOMAIN open_trades
    THEN UNCHANGED <<dhan, trades, open_trades, trade_log, log_headers, broker>>
    ELSE LET ref == open_trades[identifier]
         IN  IF exit_price = None
             THEN \* line 139 done, line 140 raises
                  /\ trades' = [trades EXCEPT ![ref].ExitTime = Some(Timestamp)]
                  /\ UNCHANGED <<dhan, open_trades, trade_log, log_headers, broker>>
             ELSE LET trade == Finalized(trades[ref], exit_price[1])
                  IN  /\ trades' = [trades EXCEPT ![ref] = trade]
                      /\ broker' = IF /\ trade.Mode = "LIVE"
                                      /\ dhan = "connected" /\ cancelled
                                   THEN [broker EXCEPT
                                           !.cancelled = @ \cup {trade.OrderID[1]}]
                                   ELSE broker
                      /\ IF written
                         THEN /\ append_to_log(trade)
                              /\ open_trades' = Del(open_trades, identifier)
                         ELSE \* line 153 raises, line 154 not reached
                              UNCHANGED <<trade_log, log_headers, open_trades>>
                      /\ UNCHANGED dhan

\* what the call returns: None when it found nothing or raised
CloseOrRaiseResult(identifier, exit_price, written) ==
    IF CloseError(identifier, exit_price, written) = ""
    THEN CloseResult(identifier) ELSE None

\* a caller other than a monitor calls close_trade, in any environment
ManualCloseOrRaise ==
    \E identifier \in RawIdentifiers, exit_price \in OptionalExitPrices,
       written \in BOOLEAN :
         /\ close_trade_or_raise(identifier, exit_price, TRUE, written)
         /\ UNCHANGED monitors
         /\ last' = [op |-> "close_trade", by |-> None, id |-> identifier,
                     ret |-> CloseOrRaiseResult(identifier, exit_price, written),
                     error |-> CloseError(identifier, exit_price, written)]
         /\ UNCHANGED <<loopvars, runvars, fetch, calc, order_manager, lockvars>>

\* lines 125-126 in any environment: an exception of close_trade is caught
\* nowhere in _monitor_trade and ends the thread
MonitorCloseOrRaise(m) ==
    /\ monitors[m].pc = "close"
    /\ \E written \in BOOLEAN :
         /\ close_trade_or_raise(monitors[m].id, monitors[m].ltp, TRUE, written)
         /\ monitors' =
              [monitors EXCEPT ![m].pc =
                 IF CloseError(monitors[m].id, monitors[m].ltp, written) = ""
                 THEN "done" ELSE "raised"]
         /\ last' = [op |-> "close_trade", by |-> Some(m), id |-> monitors[m].id,
                     ret |-> CloseOrRaiseResult(monitors[m].id, monitors[m].ltp,
                                                written),
                     error |-> CloseError(monitors[m].id, monitors[m].ltp,
                                          written)]
    /\ UNCHANGED <<loopvars, runvars, fetch, calc, order_manager, lockvars>>

\* OrderManager with paper trades and their monitors, where close_trade may
\* fail
NextFaults ==
    \/ ManualPaperTrade
    \/ ManualCloseOrRaise
    \/ \E m \in 1..Len(monitors) : MonitorPoll(m)
    \/ \E m \in 1..Len(monitors) : MonitorCloseOrRaise(m)

SpecFaults == Init /\ [][NextFaults]_vars

\* C12: every trade held in the registry has a null exit time, exit price
\* and profit/loss, whatever happened to the close_trade calls made so far
C12_RegisteredTradesHaveNoExit ==
    \A k \in DOMAIN open_trades :
       /\ trades[open_trades[k]].ExitTime = None
       /\ trades[open_trades[k]].ExitPrice = None
       /\ trades[open_trades[k]].PL = None

\* a close_trade call has raised on the log write: its trade is still in the
\* registry, with its exit price and P/L set and nothing logged
C12_Witness ==
    /\ last.op = "close_trade" /\ last.error = "OSError"
    /\ last.id \in DOMAIN open_trades
    /\ trades[open_trades[last.id]].ExitPrice # None
    /\ trades[open_trades[last.id]].PL # None
    /\ trade_log = <<>>

\* a step that is a call of paper_trade or live_trade: the call recorded in
\* last'
OpenCall == last' # last /\ last'.op \in {"paper_trade", "live_trade"}

\* C13: a paper_trade or live_trade call for an identifier that is open
\* leaves the registry and the trade registered under that identifier as
\* they were and starts no monitor
C13_DuplicateOpenRejected ==
    [][(OpenCall /\ Str(last'.id) \in DOMAIN open_trades) =>
          /\ open_trades' = open_trades
          /\ trades' = trades
          /\ monitors' = monitors]_vars

\* a second open for an identifier that was open has replaced the first
\* trade, which is neither registered nor logged, and two monitors poll the
\* identifier
C13_Witness ==
    /\ last.op \in {"paper_trade", "live_trade"}
    /\ Len(trades) = 2 /\ trade_log = <<>>
    /\ trades[1].Identifier = trades[2].Identifier
    /\ open_trades[trades[2].Identifier] = 2
    /\ trades[1].ExitTime = None
    /\ monitors[1].pc # "done" /\ monitors[2].pc # "done"

(***************************************************************************)
(* The runner: start_runner, stop_runner and the control flow of the       *)
(* run_loop threads they start.  Here an iteration of run_loop is followed *)
(* from one blocking call to the next, so that a stop request can arrive   *)
(* at any of them; what the iteration computes is the subject of Tick.     *)
(* The OrderManager of the variables above is an object of its own: its    *)
(* monitors hold it whatever init_services binds _order_manager to.        *)
(***************************************************************************)

\* the number of run_loop threads started in the explored runs
MaxLoops == 2

\* line 423: the sleep that ends an iteration in market hours
TICK_SLEEP == 300

\* line 425: the sleep of an iteration outside market hours
IDLE_SLEEP == 60

\* line 421: the sleep of the handler of a failed iteration
ERROR_SLEEP == 5

\* nse_data_fetch.py line 63: the sleep of fetch_cookies after a failure
COOKIE_SLEEP == 60

\* line 448: market_close of start_runner
RunnerClose == T(15, 30, 0)

\* the times of day at which start_runner is explored
StartClock == Clock \cup {T(15, 29, 59), RunnerClose}

\* lines 460-466: the thread start_runner creates, with its own stop event;
\* waited counts the seconds the thread has slept since its event was set,
\* error is the exception its current iteration has logged at line 420
NewLoop ==
    [pc |-> "start", stop |-> FALSE, waited |-> 0, attempt |-> 0, error |-> ""]

\* Thread.is_alive()
is_alive(i) == loops[i].pc # "exited"

\* line 442 and line 472: _runner_thread and _runner_thread.is_alive()
RunnerAlive == runner_thread # None /\ is_alive(runner_thread[1])

CanStart == Len(loops) < MaxLoops /\ Work + 3 <= MaxWork

\* lines 438-467
start_runner ==
    \E now \in StartClock :
        IF RunnerAlive
        THEN /\ last' = [op |-> "start_runner", by |-> None, id |-> None,
                         ret |-> None, skipped |-> "alive"]
             /\ UNCHANGED <<omvars, loopvars, runvars, fetch, calc, order_manager, lockvars>>
        ELSE IF now >= RunnerClose
        THEN /\ last' = [op |-> "start_runner", by |-> None, id |-> None,
                         ret |-> None, skipped |-> "closed"]
             /\ UNCHANGED <<omvars, loopvars, runvars, fetch, calc, order_manager, lockvars>>
        ELSE /\ CanStart
             /\ loops' = Append(loops, NewLoop)
             /\ runner_stop_event' = Some(Len(loops) + 1)
             /\ runner_thread' = Some(Len(loops) + 1)
             /\ last' = [op |-> "start_runner", by |-> None, id |-> None,
                         ret |-> Some(Len(loops) + 1), skipped |-> ""]
             /\ UNCHANGED <<omvars, loopvars, fetch, calc, order_manager, lockvars>>

\* lines 470-475
stop_runner ==
    /\ IF RunnerAlive
       THEN /\ loops' = [loops EXCEPT ![runner_stop_event[1]].stop = TRUE]
            /\ runner_thread' = None
            /\ UNCHANGED runner_stop_event
       ELSE UNCHANGED runvars
    /\ last' = [op |-> "stop_runner", by |-> None, id |-> None,
                ret |-> None, skipped |-> IF RunnerAlive THEN "" ELSE "idle"]
    /\ UNCHANGED <<omvars, loopvars, fetch, calc, order_manager, lockvars>>

\* init_services (lines 140-150): _order_manager is bound to a new
\* OrderManager, whose registry is empty (order_manager.py 18-24)
init_services == order_manager' = "fresh"

\* lines 267-272: run_loop up to its call of get_nifty_hist_data
LoopStart(i) ==
    /\ i \in DOMAIN loops
    /\ loops[i].pc = "start"
    /\ loops' = [loops EXCEPT ![i].pc = "cookies"]
    /\ init_services
    /\ UNCHANGED <<omvars, loopvars, runner_thread, runner_stop_event, last, fetch, calc, lockvars>>

\* lines 272-281 with fetch_cookies (nse_data_fetch.py 42-65), called by
\* get_nifty_hist_data at line 121: the request either gives the cookies,
\* and the historical series is fetched and the loop entered, or fails, and
\* fetch_cookies sleeps and tries again, any number of times
LoopCookies(i) ==
    /\ i \in DOMAIN loops
    /\ loops[i].pc = "cookies"
    /\ \E got \in BOOLEAN :
          loops' = [loops EXCEPT ![i].pc = IF got THEN "check"
                                          ELSE "cookie_sleep"]
    /\ UNCHANGED <<omvars, loopvars, runner_thread, runner_stop_event, last, fetch, calc, order_manager, lockvars>>

\* lines 283-285: the loop condition, then the time of day
LoopCheckTarget(i, now) ==
    IF loops[i].stop THEN "exited"
    ELSE IF MarketHours(now) THEN "fetch" ELSE "idle_sleep"

LoopCheck(i) ==
    /\ i \in DOMAIN loops
    /\ loops[i].pc = "check"
    /\ \E now \in Clock :
          loops' = [loops EXCEPT ![i].pc = LoopCheckTarget(i, now),
                                 ![i].attempt = 0,
                                 ![i].error = ""]
    /\ UNCHANGED <<omvars, loopvars, runner_thread, runner_stop_event, last, fetch, calc, order_manager, lockvars>>

\* lines 286-417 up to the next blocking call: an attempt of get_option_data
\* (lines 207-231) either gives a snapshot, and the rest of the iteration
\* runs or raises, or gives none, and a backoff follows unless it was the
\* last attempt; the empty snapshot of the last attempt raises at line 306
LoopFetchTarget_propagates(i, got, raised) ==
    IF got THEN (IF raised THEN "exited" ELSE "tick_sleep")
    ELSE IF loops[i].attempt < MAX_RETRIES THEN "backoff"
    ELSE "exited"

LoopFetchTarget(i, got, raised) ==
    IF got THEN (IF raised THEN "error_sleep" ELSE "tick_sleep")
    ELSE IF loops[i].attempt < MAX_RETRIES THEN "backoff"
    ELSE "error_sleep"

\* the exception the iteration ends on, "" when it goes on or ends normally
LoopFetchError(i, got, raised) ==
    IF got THEN (IF raised THEN "Exception" ELSE "")
    ELSE IF loops[i].attempt < MAX_RETRIES THEN ""
    ELSE "KeyError"

LoopFetch(i) ==
    /\ i \in DOMAIN loops
    /\ loops[i].pc = "fetch"
    /\ \E got \in BOOLEAN, raised \in BOOLEAN :
          loops' = [loops EXCEPT ![i].pc = LoopFetchTarget(i, got, raised),
                                 ![i].error = LoopFetchError(i, got, raised)]
    /\ UNCHANGED <<omvars, loopvars, runner_thread, runner_stop_event, last, fetch, calc, order_manager, lockvars>>

Sleeping == {"cookie_sleep", "backoff", "error_sleep", "tick_sleep",
             "idle_sleep"}

\* the argument of time.sleep at line 63 of nse_data_fetch.py and at lines
\* 231, 421, 423 and 425
SleepSeconds(pc) ==
    CASE pc = "cookie_sleep" -> COOKIE_SLEEP
      [] pc = "backoff" -> RETRY_DELAY
      [] pc = "error_sleep" -> ERROR_SLEEP
      [] pc = "tick_sleep" -> TICK_SLEEP
      [] pc = "idle_sleep" -> IDLE_SLEEP

\* where the thread is when the sleep returns
AfterSleep(pc) ==
    CASE pc = "cookie_sleep" -> "cookies"
      [] pc = "backoff" -> "fetch"
      [] pc = "error_sleep" -> "tick_sleep"
      [] pc = "tick_sleep" -> "check"
      [] pc = "idle_sleep" -> "check"

Min(a, b) == IF a <= b THEN a ELSE b

\* the seconds of sleep of the longest iteration: both backoffs of
\* get_option_data, the sleep of the handler and the sleep that ends it
LongestWait == MAX_RETRIES * RETRY_DELAY + ERROR_SLEEP + TICK_SLEEP

\* time.sleep(n) returns after n seconds, whatever the stop event; waited
\* is not counted past LongestWait
LoopSleep(i) ==
    /\ i \in DOMAIN loops
    /\ loops[i].pc \in Sleeping
    /\ loops' = [loops EXCEPT
          ![i].pc = AfterSleep(loops[i].pc),
          ![i].attempt = IF loops[i].pc = "backoff" THEN @ + 1 ELSE @,
          ![i].waited = IF loops[i].stop
                        THEN Min(@ + SleepSeconds(loops[i].pc), LongestWait + 1)
                        ELSE @]
    /\ UNCHANGED <<omvars, loopvars, runner_thread, runner_stop_event, last, fetch, calc, order_manager, lockvars>>

LoopStep(i) ==
    \/ LoopStart(i)
    \/ LoopCookies(i)
    \/ LoopCheck(i)
    \/ LoopFetch(i)
    \/ LoopSleep(i)

NextRunner ==
    \/ start_runner
    \/ stop_runner
    \/ \E i \in 1..MaxLoops : LoopStart(i)
    \/ \E i \in 1..MaxLoops : LoopCookies(i)
    \/ \E i \in 1..MaxLoops : LoopCheck(i)
    \/ \E i \in 1..MaxLoops : LoopFetch(i)
    \/ \E i \in 1..MaxLoops : LoopSleep(i)
    \/ ManualPaperTrade
    \/ \E m \in DOMAIN monitors : MonitorPoll(m)
    \/ \E m \in DOMAIN monitors : MonitorClose(m)

SpecRunner == Init /\ [][NextRunner]_vars

\* a started thread is scheduled, and each of its sleeps and requests returns
SpecRunnerFair ==
    SpecRunner /\ \A i \in 1..MaxLoops : WF_vars(LoopStep(i))

(***************************************************************************)
(* Properties of the runner                                                *)
(***************************************************************************)

\* C14: once its stop event is set, a run_loop thread exits within one idle
\* interval (60 s): while it is still alive it has slept at most 60 seconds
\* since the event was set, wherever in the iteration the event found it
C14_StopWithinIdleInterval ==
    \A i \in DOMAIN loops :
        loops[i].stop /\ is_alive(i) => loops[i].waited <= IDLE_SLEEP

\* the event is set during the idle sleep and the thread exits at its end
C14_Witness ==
    \E i \in DOMAIN loops :
        loops[i].pc = "exited" /\ loops[i].waited = IDLE_SLEEP

\* a step of a run_loop thread or of stop_runner
RunnerStep == loops' # loops \/ (last' # last /\ last'.op = "stop_runner")

\* C15: a run_loop thread whose stop event is set eventually exits, whatever
\* the monitors do and without waiting for them; no step of the runner
\* (the stop request, the exit of the loop) cancels a monitor or touches
\* the trade it watches
C15_StopEndsLoopNotMonitors ==
    /\ \A i \in 1..MaxLoops :
          [](i \in DOMAIN loops /\ loops[i].stop
                => <>(i \in DOMAIN loops /\ loops[i].pc = "exited"))
    /\ [][RunnerStep => UNCHANGED <<monitors, open_trades, trades>>]_vars

\* the loop has exited on a stop request while a monitor is still polling
\* its registered trade
C15_Witness ==
    \E i \in DOMAIN loops :
        /\ loops[i].stop /\ loops[i].pc = "exited"
        /\ \E m \in DOMAIN monitors :
              monitors[m].pc \in Polling /\ Registered(m)
              /\ monitors[m].ltp # None

\* a call of start_runner
StartCall == last' # last /\ last'.op = "start_runner"

\* a run_loop thread is still running
LoopActive == \E i \in DOMAIN loops : is_alive(i)

\* C16: start_runner called while a control loop is active is a no-op: no
\* thread is started, and the handle and the stop event are left as they are
C16_StartWhileActiveIsNoOp ==
    [][StartCall /\ LoopActive => UNCHANGED runvars]_vars

\* start_runner has returned at line 443: the handle names a live thread
C16_Witness ==
    /\ last.op = "start_runner" /\ last.skipped = "alive"
    /\ RunnerAlive
    /\ Len(loops) = 1
    /\ runner_stop_event = runner_thread

\* C17: no exception propagates out of a monitor: whatever fails in the
\* close_trade call a monitor issues, the monitor does not end on an
\* exception
C17_MonitorNeverRaises ==
    \A m \in DOMAIN monitors : monitors[m].pc # "raised"

\* a monitor has issued a close_trade call that succeeded, and has ended
\* in the regular way
C17_Witness ==
    \E m \in DOMAIN monitors :
        /\ monitors[m].pc = "done"
        /\ last.op = "close_trade" /\ last.by = Some(m) /\ last.error = ""
        /\ m \in Closed /\ trade_log # <<>>

\* C18: no exception propagates out of the control loop: an iteration in
\* which a step raises is in the handler of line 419 afterwards, its thread
\* alive, and goes on to the sleep that ends the iteration; a thread exits
\* only when its stop event is set
C18_LoopSurvivesErrors ==
    /\ [][\A i \in DOMAIN loops :
             loops[i].pc = "fetch" /\ loops'[i].error # ""
                => loops'[i].pc = "error_sleep"]_vars
    /\ [](\A i \in DOMAIN loops :
             /\ loops[i].pc = "exited" => loops[i].stop
             /\ loops[i].error # "" => loops[i].pc \in {"error_sleep", "tick_sleep",
                                                        "check"})

\* after an iteration that raised, the thread, never stopped, is in the
\* sleep that ends the iteration
C18_Witness ==
    \E i \in DOMAIN loops :
        /\ loops[i].error = "Exception"
        /\ loops[i].pc = "tick_sleep"
        /\ ~loops[i].stop

\* a step that is an iteration of run_loop in market hours
TickStep == last'.op = "tick" /\ (last' # last \/ nifty_today' # nifty_today)

\* C19: an iteration that finds no live bar or no option chain skips only
\* the steps that need them: when it runs at or past 15:00 it still reaches
\* the 15:00 handling of line 405
C19_EodWithoutData ==
    [][TickStep /\ last'.late => last'.eod]_vars

\* an iteration at or past 15:00 found no data and ended at line 419 with
\* KeyError, the 15:00 handling not reached and a trade still open
C19_Witness ==
    /\ last.op = "tick" /\ last.late /\ ~last.eod
    /\ last.error = "KeyError"
    /\ DOMAIN open_trades # {}

(***************************************************************************)
(* get_option_data (strategy_engine.py 203-235), one step per attempt.     *)
(* Its inputs are what each source would answer at each attempt: the       *)
(* broker's get_option_chain gives a chain or the empty DataFrame (it      *)
(* catches its own exceptions and gives the empty DataFrame when its       *)
(* client is None), the scrape gives a chain, the empty DataFrame or an    *)
(* exception.                                                              *)
(***************************************************************************)
FetchInputs ==
    [1..(MAX_RETRIES + 1) ->
        [dhan : {"chain", "empty"}, nse : {"chain", "empty", "raise"}]]

\* dhan_service.py 78-130: what _dhan_service.get_option_chain() returns at
\* an attempt
DhanAnswer(r) == IF dhan = "connected" THEN r.dhan ELSE "empty"

\* the snapshot get_option_data returns: the attempt and the source it is of
Snapshot(a, source) == [kind |-> "chain", attempt |-> a, source |-> source]

EmptySnapshot == [kind |-> "empty", attempt |-> 0, source |-> ""]

\* lines 208-226: the try block of one attempt
FetchAttempt ==
    /\ fetch.pc = "try"
    /\ LET a == fetch.attempt + 1
           r == fetch.results[a]
       IN  IF dhan # "none" /\ DhanAnswer(r) = "chain"
           THEN fetch' = [fetch EXCEPT
                    !.pc = "returned",
                    !.calls = Append(@, <<a, "dhan">>),
                    !.ret = Some(Snapshot(a, "dhan"))]
           ELSE LET calls == IF dhan # "none"
                             THEN <<<<a, "dhan">>, <<a, "nse">>>>
                             ELSE <<<<a, "nse">>>>
                IN  fetch' = [fetch EXCEPT
                       !.calls = @ \o calls,
                       !.pc = IF r.nse = "chain" THEN "returned"
                              ELSE "retry_check",
                       !.ret = IF r.nse = "chain"
                               THEN Some(Snapshot(a, "nse")) ELSE None]
    /\ UNCHANGED <<omvars, loopvars, runvars, last, calc, order_manager, lockvars>>

NeedsRetrySleep_every_attempt(attempt) == attempt <= MAX_RETRIES

\* line 229
NeedsRetrySleep(attempt) == attempt < MAX_RETRIES

\* lines 228-235: the retry check that ends an attempt without a snapshot,
\* then the next attempt or, the range of line 208 exhausted, the return of
\* the empty DataFrame
FetchRetryCheck ==
    /\ fetch.pc = "retry_check"
    /\ fetch' = [fetch EXCEPT
          !.slept = IF NeedsRetrySleep(fetch.attempt) THEN @ + 1 ELSE @,
          !.attempt = IF fetch.attempt < MAX_RETRIES THEN @ + 1 ELSE @,
          !.pc = IF fetch.attempt < MAX_RETRIES THEN "try" ELSE "returned",
          !.ret = IF fetch.attempt < MAX_RETRIES THEN None
                  ELSE Some(EmptySnapshot)]
    /\ UNCHANGED <<omvars, loopvars, runvars, last, calc, order_manager, lockvars>>

\* a call of get_option_data, for each input
InitFetch ==
    /\ InitProgram
    /\ fetch \in {[pc |-> "try", results |-> r, attempt |-> 0, slept |-> 0,
                   calls |-> <<>>, ret |-> None] : r \in FetchInputs}
    /\ calc = NoCalc

NextFetch == FetchAttempt \/ FetchRetryCheck

SpecFetch == InitFetch /\ [][NextFetch]_vars

\* the function runs in one thread: its next step is taken
SpecFetchFair == SpecFetch /\ WF_vars(NextFetch)

\* whether a source gives a chain at an attempt, in the given inputs
Gives(a, source) ==
    IF source = "dhan"
    THEN dhan = "connected" /\ fetch.results[a].dhan = "chain"
    ELSE fetch.results[a].nse = "chain"

\* the order in which the sources are to be consulted
Rank(a, source) == 2 * a + (IF source = "nse" THEN 1 ELSE 0)

Consulted == (1..3) \X {"dhan", "nse"}

\* C20: get_option_data makes at most 3 attempts, sleeps only between two
\* attempts (one sleep less than attempts, none after the last), always
\* returns, returns the first chain a source gives (the broker before the
\* scrape within an attempt) and the empty snapshot only when all 3 attempts
\* gave none
C20_FetchBoundedFirstSnapshot ==
    /\ [](/\ fetch.attempt + 1 <= 3
          /\ fetch.slept <= fetch.attempt
          /\ \A i \in 1..Len(fetch.calls) : fetch.calls[i][1] <= 3)
    /\ [](fetch.pc = "returned" =>
            /\ fetch.slept = fetch.attempt
            /\ fetch.ret # None
            /\ LET ret == fetch.ret[1]
               IN  IF \E c \in Consulted : Gives(c[1], c[2])
                   THEN /\ ret.kind = "chain"
                        /\ Gives(ret.attempt, ret.source)
                        /\ \A c \in Consulted :
                              Gives(c[1], c[2]) =>
                                 Rank(ret.attempt, ret.source) <= Rank(c[1], c[2])
                   ELSE /\ ret.kind = "empty"
                        /\ fetch.attempt + 1 = 3
                        /\ fetch.slept = 2)
    /\ <>(fetch.pc = "returned")

\* the broker gave nothing and the scrape raised at the first attempt; after
\* one sleep the broker gave nothing again and the scrape gave its chain
C20_Witness ==
    /\ fetch.pc = "returned"
    /\ dhan = "connected"
    /\ fetch.results[1].nse = "raise"
    /\ fetch.ret = Some(Snapshot(2, "nse"))
    /\ fetch.slept = 1
    /\ fetch.calls = <<<<1, "dhan">>, <<1, "nse">>, <<2, "dhan">>, <<2, "nse">>>>

\* C21: no operation of run_loop or of its start-up blocks for ever: every
\* fetch gives up after a bounded number of attempts, so a started thread
\* always comes to its next test of the stop event at line 283 (or has
\* exited)
C21_LoopReachesStopCheck ==
    \A i \in 1..MaxLoops :
        [](i \in DOMAIN loops
              => <>(i \in DOMAIN loops /\ loops[i].pc \in {"check", "exited"}))

\* a request of fetch_cookies has failed before the first iteration and the
\* thread, its stop event not set, sleeps before it tries again
C21_Witness ==
    \E i \in DOMAIN loops :
        loops[i].pc = "cookie_sleep" /\ ~loops[i].stop

(***************************************************************************)
(* The signals of a row, each computed for every input of a bounded set:   *)
(* the Decision of lines 306-341 from the two largest open interests and   *)
(* the two sums of changes, the day classification of                      *)
(* StrategyEngine.day_today_params from the table, the history and the     *)
(* snapshot.                                                               *)
(***************************************************************************)

\* the largest Call_ODIN and PUT_ODIN of a chain
OdinValues == {0, 5, 8}

\* the sums of Call_OI_Diff and PUT_OI_DIFF of a chain; 5/4 and 3/4 are
\* the thresholds of the ratio
DiffSums == {-5, -4, -3, 0, 3, 4, 5}

DecisionInputs ==
    [put_max : OdinValues, call_max : OdinValues,
     put_sum : DiffSums, call_sum : DiffSums]

\* the tables params_table_nifty may hold: none, or one row for a key
ParamsTables ==
    {[k \in {} |-> <<0, 0>>]}
    \cup {[k \in {<<"YES", "YES", "NO", "NO", "YES">>} |-> v] :
             v \in {<<60, 40>>, <<50, 50>>, <<40, 60>>, <<51, 49>>}}

\* hist_df: None or empty, or a history with the given last row
HistTails == {None, Some(HistTail)}

\* live_snapshot.get("OPEN"): above or below the averages of HistTail
Opens == {None, Some(105), Some(95)}

DayInputs == [table : ParamsTables, hist_tail : HistTails, open : Opens]

\* what a computation returned: a label and, for the day classification,
\* its percentage
Labelled(pair) == [label |-> pair[1], pct |-> pair[2]]

\* lines 306-341 for one chain
EvalDecision ==
    /\ calc.pc = "call" /\ calc.fn = "Decision"
    /\ calc' = [calc EXCEPT
          !.pc = "returned",
          !.ret = Labelled(<<Decision(calc.args.put_max, calc.args.call_max,
                                      calc.args.put_sum, calc.args.call_sum),
                             0>>)]
    /\ UNCHANGED <<omvars, loopvars, runvars, last, fetch, order_manager, lockvars>>

\* lines 91-128 for one call
EvalDayParams ==
    /\ calc.pc = "call" /\ calc.fn = "day_today_params"
    /\ calc' = [calc EXCEPT
          !.pc = "returned",
          !.ret = Labelled(day_today_params_in(calc.args.table,
                                               calc.args.hist_tail,
                                               calc.args.open))]
    /\ UNCHANGED <<omvars, loopvars, runvars, last, fetch, order_manager, lockvars>>

InitCalc ==
    /\ InitProgram
    /\ fetch = NoFetch
    /\ calc \in {[pc |-> "call", fn |-> "Decision", args |-> a,
                   ret |-> Labelled(<<"", 0>>)] :
                    a \in DecisionInputs}
                \cup {[pc |-> "call", fn |-> "day_today_params", args |-> a,
                       ret |-> Labelled(<<"", 0>>)] : a \in DayInputs}

NextCalc == EvalDecision \/ EvalDayParams

SpecCalc == InitCalc /\ [][NextCalc]_vars

\* a Decision has been computed
DecisionOf(d) ==
    calc.pc = "returned" /\ calc.fn = "Decision" /\ calc.ret.label = d

\* C22: the Decision is CALL iff put_max - call_max > 0, put_sum - call_sum
\* > 0 and put_sum / call_sum > 1.25, PUT iff both differences are < 0 and
\* the ratio is < 0.75, NEUTRAL otherwise, the ratio being +infinity when
\* call_sum = 0; so it is NEUTRAL when both sums are 0 and never PUT when
\* call_sum = 0
C22_DecisionRule ==
    calc.pc = "returned" /\ calc.fn = "Decision" =>
        LET a == calc.args
            \* put_sum / call_sum > n / 100, for call_sum # 0
            RatioOver(n) ==
                IF a.call_sum > 0 THEN 100 * a.put_sum > n * a.call_sum
                ELSE 100 * a.put_sum < n * a.call_sum
            RatioUnder(n) ==
                IF a.call_sum > 0 THEN 100 * a.put_sum < n * a.call_sum
                ELSE 100 * a.put_sum > n * a.call_sum
            call == /\ a.put_max - a.call_max > 0
                    /\ a.put_sum - a.call_sum > 0
                    /\ (a.call_sum = 0 \/ RatioOver(125))
            put  == /\ a.put_max - a.call_max < 0
                    /\ a.put_sum - a.call_sum < 0
                    /\ a.call_sum # 0 /\ RatioUnder(75)
        IN  /\ calc.ret.label \in {"CALL", "PUT", "NEUTRAL"}
            /\ calc.ret.label = "CALL" <=> call
            /\ calc.ret.label = "PUT" <=> put
            /\ ~(call /\ put)
            /\ (a.call_sum = 0 /\ a.put_sum = 0 => calc.ret.label = "NEUTRAL")
            /\ (a.call_sum = 0 => calc.ret.label # "PUT")

\* with no change in call interest and a rise in put interest the ratio is
\* +infinity and the Decision is CALL
C22_Witness ==
    /\ DecisionOf("CALL")
    /\ calc.args.call_sum = 0 /\ calc.args.put_sum = 3

\* the key of the five comparisons of an open of 105 with HistTail, which
\* is the key of the tables of ParamsTables; an open of 95 has another key
KeyOfTables == <<"YES", "YES", "NO", "NO", "YES">>

\* C24: when the key of the five comparisons is in the table with
\* (bearish%, bullish%), the day is Bearish with bearish% if bearish% > 50
\* and Bullish with bullish% otherwise; when the key is absent, the table
\* empty, or the history or the open missing, it is Bullish 50
C24_DayClassification ==
    calc.pc = "returned" /\ calc.fn = "day_today_params" =>
        LET a == calc.args
            present == /\ a.hist_tail # None /\ a.open # None
                       /\ a.open[1] = 105
                       /\ KeyOfTables \in DOMAIN a.table
        IN  IF present
            THEN LET bear == a.table[KeyOfTables][1]
                     bull == a.table[KeyOfTables][2]
                 IN  IF bear > 50
                     THEN calc.ret = [label |-> "Bearish", pct |-> bear]
                     ELSE calc.ret = [label |-> "Bullish", pct |-> bull]
            ELSE calc.ret = [label |-> "Bullish", pct |-> 50]

\* the key is in the table with 50 and 50: the day is Bullish
C24_Witness ==
    /\ calc.pc = "returned" /\ calc.fn = "day_today_params"
    /\ calc.args.hist_tail # None /\ calc.args.open = Some(105)
    /\ KeyOfTables \in DOMAIN calc.args.table
    /\ calc.args.table[KeyOfTables] = <<50, 50>>
    /\ calc.ret = [label |-> "Bullish", pct |-> 50]

\* C23: the trend of each running row is computed from the last 5 values
\* of the Data_diff series, or from all of them when fewer exist:
\* 'insufficient data' with fewer than 2 values, otherwise 'up' or 'down' by
\* the sign of the least-squares slope; rows 2 to 4 carry 'up' or 'down'
C23_TrendOfEveryRow ==
    [][RowTick =>
          /\ oi_running'.trend_data = calculate_trend(oi_running'.Data_diff)
          /\ (oi_running'.len \in 2..4
                 => oi_running'.trend_data \in {"up", "down"})]_vars

\* the fifth row of a session carries the trend of its five values
C23_Witness ==
    /\ last.op = "tick"
    /\ oi_running.len = 5
    /\ Len(oi_running.Data_diff) = window_size
    /\ oi_running.trend_data = calculate_trend(oi_running.Data_diff)
    /\ oi_running.trend_data \in {"up", "down"}

\* a call of live_trade
LiveCall == last' # last /\ last'.op = "live_trade"

\* C27: a live_trade call made while no broker is configured (no service,
\* or a service without a client), or whose order the broker did not take,
\* fails: it returns no trade, the registry is as it was, no monitor is
\* started and order_flag is not set
C27_LiveOpenFailsWithoutBroker ==
    [][(LiveCall /\ (dhan # "connected" \/ broker'.placed = broker.placed)) =>
          /\ last'.ret = None
          /\ UNCHANGED <<open_trades, trades, monitors>>
          /\ order_flag' # "True"]_vars

\* live_trade was called on an OrderManager without a DhanService: it
\* raised and nothing was registered
C27_Witness ==
    /\ last.op = "live_trade" /\ last.ret = None
    /\ dhan = "none"
    /\ trades = <<>> /\ monitors = <<>> /\ DOMAIN open_trades = {}

\* C28: when dhan.exit_order fails while close_trade closes a LIVE trade,
\* close_trade still returns the trade, appends it to the log with its exit
\* price and profit/loss, and removes it from the registry
C28_ExitFailureStillCloses ==
    [][(/\ CloseCall
        /\ last'.id \in DOMAIN open_trades
        /\ trades[open_trades[last'.id]].Mode = "LIVE"
        /\ dhan = "connected"
        /\ broker'.cancelled = broker.cancelled) =>
          LET ref == open_trades[last'.id]
          IN  /\ last'.ret = Some(ref)
              /\ Len(trade_log') = Len(trade_log) + 1
              /\ SubSeq(trade_log', 1, Len(trade_log)) = trade_log
              /\ trade_log'[Len(trade_log')] = trades'[ref]
              /\ trades'[ref].ExitPrice # None /\ trades'[ref].PL # None
              /\ last'.id \notin DOMAIN open_trades']_vars

\* a LIVE trade placed with the broker has been closed and logged although
\* the broker cancelled nothing
C28_Witness ==
    /\ last.op = "close_trade" /\ last.ret # None
    /\ dhan = "connected"
    /\ trades[last.ret[1]].Mode = "LIVE"
    /\ broker.placed # {} /\ broker.cancelled = {}
    /\ Len(trade_log) = 1 /\ trade_log[1] = trades[last.ret[1]]
    /\ DOMAIN open_trades = {}

(***************************************************************************)
(* The trade log across process restarts                                    *)
(***************************************************************************)
\* a restart is explored while the log is short enough for one more trade
CanRestart == 3 * Len(trade_log) + 3 <= MaxWork

\* the process ends and is started again: OrderManager.__init__ builds an
\* empty registry, the monitor and loop threads of the old process are gone,
\* and trade_log.csv and the broker's orders are what the old process left
Restart ==
    /\ CanRestart
    /\ trades # <<>>
    /\ dhan' \in DhanKinds
    /\ trades' = <<>>
    /\ open_trades' = [k \in {} |-> 0]
    /\ monitors' = <<>>
    /\ order_flag' = "unset"
    /\ nifty_today' = [len |-> 0, Close |-> Some(100), Stoc_Signal |-> 0]
    /\ oi_running' = [len |-> 0, Data_diff |-> <<>>, CALL_ODIN_MAX |-> <<0, 0>>,
                      PUT_ODIN_MAX |-> <<0, 0>>, Decision |-> "",
                      day_today |-> <<"", 0>>, trend_data |-> ""]
    /\ last' = [op |-> "restart", by |-> None, id |-> None, ret |-> None]
    /\ runner_thread' = None
    /\ runner_stop_event' = None
    /\ loops' = <<>>
    /\ order_manager' = "held"
    /\ lock' = None
    /\ callers' = <<>>
    /\ UNCHANGED <<trade_log, log_headers, broker, fetch, calc>>

NextRestart ==
    \/ ManualPaperTrade
    \/ ManualLiveTrade
    \/ ManualCloseTrade
    \/ \E m \in 1..Len(monitors) : MonitorPoll(m)
    \/ \E m \in 1..Len(monitors) : MonitorClose(m)
    \/ Restart

SpecRestart == Init /\ [][NextRestart]_vars

\* C29: the trade log is append-only and header-stable: over opens, closes
\* and process restarts the log before a step is a prefix of the log after
\* it, so no row is modified or removed, and the file holds exactly one
\* header, written with the first row when the file did not exist
C29_LogAppendOnly ==
    /\ [][/\ Len(trade_log') >= Len(trade_log)
          /\ SubSeq(trade_log', 1, Len(trade_log)) = trade_log
          /\ (log_headers' # log_headers => trade_log = <<>>)]_vars
    /\ [](log_headers = IF trade_log = <<>> THEN 0 ELSE 1)

\* a process started over an existing log has closed a trade of its own: the
\* log holds the old process's row, then the new row, under one header
C29_Witness ==
    /\ last.op = "close_trade" /\ last.ret # None
    /\ Len(trades) = 1
    /\ Len(trade_log) = 2
    /\ trade_log[2] = trades[last.ret[1]]
    /\ log_headers = 1

\* the trades registered under their own identifier
UnderOwnIdentifier ==
    {i \in 1..Len(trades) :
        /\ trades[i].Identifier \in DOMAIN open_trades
        /\ open_trades[trades[i].Identifier] = i}

\* C30: no trade is ever lost: every trade that was opened is either the
\* trade registered under its identifier or a closed trade in the log, and
\* the number of opens is the number of open trades plus the number of log
\* rows
C30_NoTradeLost ==
    /\ \A i \in 1..Len(trades) : i \in UnderOwnIdentifier \/ i \in Closed
    /\ Len(trades) = Cardinality(DOMAIN open_trades) + Len(trade_log)

\* two trades were opened under different identifiers: one is closed and is
\* the only row of the log, the other is still registered
C30_Witness ==
    /\ Len(trades) = 2
    /\ trades[1].Identifier # trades[2].Identifier
    /\ Cardinality(UnderOwnIdentifier) = 1
    /\ Len(trade_log) = 1
    /\ \E i \in 1..2 : i \in Closed /\ trade_log[1] = trades[i] /\ i \notin UnderOwnIdentifier

\* C31: whenever a monitor's close_trade call closes a trade, the exit price
\* it passes breaches the take-profit or stop-loss threshold relative to the
\* entry price of the trade that is closed, also when the identifier was
\* closed and opened again between the monitor's registry read and its call
C31_MonitorCloseBreachesClosedTrade ==
    [][(CloseCall /\ last'.by # None /\ last'.ret # None) =>
          LET closed == trades'[last'.ret[1]]
          IN  ThresholdHit(closed.ExitPrice[1], closed.EntryPrice)]_vars

\* a monitor has closed the trade it was started for, at a price that
\* breaches a threshold of that trade's entry price
C31_Witness ==
    /\ last.op = "close_trade" /\ last.by # None /\ last.ret = last.by
    /\ trades[last.ret[1]].ExitPrice # None
    /\ ThresholdHit(trades[last.ret[1]].ExitPrice[1],
                    trades[last.ret[1]].EntryPrice)
    /\ trade_log # <<>> /\ trade_log[Len(trade_log)] = trades[last.ret[1]]

\* the monitor threads that are running on an identifier
MonitorsOn(identifier) ==
    {m \in DOMAIN monitors :
        monitors[m].id = identifier /\ monitors[m].pc \notin {"done", "raised"}}

\* C32: for every identifier at most one monitor is running at any time: a
\* monitor does not outlive its trade to watch a later trade opened under the
\* same identifier, and an open never leaves two monitors on one identifier
C32_OneMonitorPerIdentifier ==
    \A m \in DOMAIN monitors : Cardinality(MonitorsOn(monitors[m].id)) <= 1

\* an identifier was opened again after the monitor of its first trade had
\* ended: the second trade's monitor is the only one running on it
C32_Witness ==
    /\ Len(monitors) = 2
    /\ monitors[1].id = monitors[2].id
    /\ monitors[1].pc = "done"
    /\ MonitorsOn(monitors[2].id) = {2}
    /\ monitors[2].id \in DOMAIN open_trades
    /\ open_trades[monitors[2].id] = 2

\* the run_loop threads that are alive
AliveLoops == {i \in DOMAIN loops : is_alive(i)}

\* C33: at most one control-loop thread is alive at any moment, for every
\* sequence of start_runner and stop_runner calls, also for a start_runner
\* issued right after stop_runner while the stopped loop is still inside its
\* tick or its sleep
C33_AtMostOneLoopAlive == Cardinality(AliveLoops) <= 1

\* a second thread was started after the stopped one had exited: it is the
\* only thread alive
C33_Witness ==
    /\ Len(loops) = 2
    /\ loops[1].stop /\ loops[1].pc = "exited"
    /\ AliveLoops = {2}
    /\ runner_thread = Some(2)

(***************************************************************************)
(* init_services called again: by the dashboard's start button             *)
(* (Dash_app.py 172) and by every run_loop thread at its start (line 269). *)
(* The OrderManager it leaves behind keeps its trades and its monitors,     *)
(* which hold it through self; the control loop reads _order_manager.       *)
(***************************************************************************)
\* a call of init_services from the dashboard
InitServices ==
    /\ init_services
    /\ last' = [op |-> "init_services", by |-> None, id |-> None, ret |-> None]
    /\ UNCHANGED <<omvars, loopvars, runvars, fetch, calc, lockvars>>

NextInit == NextRunner \/ InitServices

SpecInit == Init /\ [][NextInit]_vars

\* _order_manager.open_trades, as the entry gate (line 373) and the
\* end-of-day sweep (lines 405-406) read it
BoundRegistry ==
    IF order_manager = "held" THEN open_trades ELSE [k \in {} |-> 0]

\* a step that is a call of init_services, from the dashboard or from a
\* run_loop thread that starts
InitCall ==
    \/ last' # last /\ last'.op = "init_services"
    \/ \E i \in DOMAIN loops : loops[i].pc = "start" /\ loops'[i].pc # "start"

\* C34: init_services called while trades are open does not drop them:
\* every trade in the registry the control loop reads before the call is in
\* the registry it reads after the call
C34_InitKeepsOpenTrades ==
    [][InitCall =>
          \A k \in DOMAIN BoundRegistry :
              /\ k \in DOMAIN BoundRegistry'
              /\ BoundRegistry'[k] = BoundRegistry[k]]_vars

\* init_services was called from the dashboard when the only trade had been
\* closed and logged: the registry the loop reads was empty before and after
C34_Witness ==
    /\ last.op = "init_services"
    /\ order_manager = "fresh"
    /\ Len(trades) = 1 /\ DOMAIN open_trades = {}
    /\ Len(trade_log) = 1

(***************************************************************************)
(* The registry lock, one step per acquisition and per critical section:   *)
(* paper_trade (lines 48-49), the registry read of _monitor_trade (93-96)   *)
(* and close_trade (134-155), called by a monitor (125) or by another       *)
(* thread.  What a critical section does is what the operations above do.   *)
(***************************************************************************)
\* the monitors the exploration budget allows
MaxMonitors == MaxWork \div 3

\* the calls of other threads explored: as many as there may be monitors
MaxCalls == MaxMonitors

\* the threads that use the lock
MonitorThread(m) == [kind |-> "monitor", n |-> m]

CallerThread(c) == [kind |-> "caller", n |-> c]

\* the paper_trade calls that have not inserted their trade yet
PendingOpens ==
    Cardinality({c \in DOMAIN callers :
                    callers[c].op = "paper_trade" /\ callers[c].pc # "returned"})

CanCall == Len(callers) < MaxCalls

\* threading.Lock.acquire, entered by `with self._lock`: the thread goes on
\* only when no thread holds the lock, itself included
acquire(thread) == lock = None /\ lock' = Some(thread)

\* a critical section that keeps the lock when its body raises
release_unless_raised(raised) == lock' = IF raised THEN lock ELSE None

\* the end of a `with self._lock` block, by its last statement, by break or
\* by an exception
release(raised) == lock' = None

\* a thread calls paper_trade: lines 28-46, up to the lock
CallPaperTrade ==
    \E r \in OpenRequests :
        /\ CanCall
        /\ Work + 3 * PendingOpens + 3 <= MaxWork
        /\ callers' = Append(callers, [op |-> "paper_trade", args |-> r,
                                       pc |-> "acquire"])
        /\ UNCHANGED <<omvars, loopvars, runvars, last, fetch, calc,
                       order_manager, lock>>

\* a thread calls close_trade: up to the lock of line 134
CallCloseTrade ==
    \E identifier \in RawIdentifiers, exit_price \in ExitPrices :
        /\ CanCall
        /\ callers' = Append(callers, [op |-> "close_trade",
                                       args |-> <<identifier, exit_price>>,
                                       pc |-> "acquire"])
        /\ UNCHANGED <<omvars, loopvars, runvars, last, fetch, calc,
                       order_manager, lock>>

\* lines 48 and 134: the caller gets the lock
CallerAcquire(c) ==
    /\ c \in DOMAIN callers
    /\ callers[c].pc = "acquire"
    /\ acquire(CallerThread(c))
    /\ callers' = [callers EXCEPT ![c].pc = "locked"]
    /\ UNCHANGED <<omvars, loopvars, runvars, last, fetch, calc, order_manager>>

\* lines 49-52 and 135-156: the critical section of the call and its end
CallerBody(c) ==
    /\ c \in DOMAIN callers
    /\ callers[c].pc = "locked"
    /\ IF callers[c].op = "paper_trade"
       THEN LET r == callers[c].args
            IN  /\ paper_trade(r[1], r[2], r[3], r[4], r[5])
                /\ release(FALSE)
                /\ callers' = [callers EXCEPT ![c].pc = "returned"]
       ELSE \E written \in BOOLEAN :
              LET identifier == callers[c].args[1]
                  exit_price == Some(callers[c].args[2])
                  error == CloseError(identifier, exit_price, written)
              IN  /\ close_trade_or_raise(identifier, exit_price, TRUE, written)
                  /\ UNCHANGED monitors
                  /\ release(error # "")
                  /\ callers' = [callers EXCEPT ![c].pc =
                                    IF error = "" THEN "returned" ELSE "raised"]
    /\ UNCHANGED <<loopvars, runvars, last, fetch, calc, order_manager>>

\* line 92: the end of the sleep and the lock of the registry read
MonitorAcquire(m) ==
    /\ m \in DOMAIN monitors
    /\ monitors[m].pc \in Polling
    /\ acquire(MonitorThread(m))
    /\ monitors' = [monitors EXCEPT ![m].pc = "read"]
    /\ UNCHANGED <<dhan, trades, open_trades, trade_log, log_headers, broker>>
    /\ UNCHANGED <<loopvars, runvars, last, fetch, calc, order_manager, callers>>

\* lines 93-128: the registry read under the lock, its end (by break or
\* after line 96), then the fetch and the decision of the pass
MonitorRead(m) ==
    /\ m \in DOMAIN monitors
    /\ monitors[m].pc = "read"
    /\ IF monitors[m].id \notin DOMAIN open_trades
       THEN monitors' = [monitors EXCEPT ![m].pc = "done"]
       ELSE \E quote \in Quotes, chain \in MonitorChainResults :
              LET trade   == trades[open_trades[monitors[m].id]]
                  ltp     == FetchLtp(trade, quote, chain)
                  outcome == PollOutcome(trade, ltp)
              IN  monitors' =
                    [monitors EXCEPT ![m].pc = AfterPoll(outcome),
                                     ![m].ltp = IF ltp.kind = "price"
                                                THEN Some(ltp.v) ELSE None]
    /\ release(FALSE)
    /\ UNCHANGED <<dhan, trades, open_trades, trade_log, log_headers, broker>>
    /\ UNCHANGED <<loopvars, runvars, last, fetch, calc, order_manager, callers>>

\* lines 125 and 134: the monitor calls close_trade and gets the lock
MonitorCloseAcquire(m) ==
    /\ m \in DOMAIN monitors
    /\ monitors[m].pc = "close"
    /\ acquire(MonitorThread(m))
    /\ monitors' = [monitors EXCEPT ![m].pc = "closing"]
    /\ UNCHANGED <<dhan, trades, open_trades, trade_log, log_headers, broker>>
    /\ UNCHANGED <<loopvars, runvars, last, fetch, calc, order_manager, callers>>

\* lines 135-156 in the monitor's call, and line 126
MonitorCloseBody(m) ==
    /\ m \in DOMAIN monitors
    /\ monitors[m].pc = "closing"
    /\ \E written \in BOOLEAN :
         LET error == CloseError(monitors[m].id, monitors[m].ltp, written)
         IN  /\ close_trade_or_raise(monitors[m].id, monitors[m].ltp, TRUE,
                                     written)
             /\ release(error # "")
             /\ monitors' = [monitors EXCEPT ![m].pc =
                                IF error = "" THEN "done" ELSE "raised"]
    /\ UNCHANGED <<loopvars, runvars, last, fetch, calc, order_manager, callers>>

NextLock ==
    \/ CallPaperTrade
    \/ CallCloseTrade
    \/ \E c \in 1..MaxCalls : CallerAcquire(c)
    \/ \E c \in 1..MaxCalls : CallerBody(c)
    \/ \E m \in 1..MaxMonitors : MonitorAcquire(m)
    \/ \E m \in 1..MaxMonitors : MonitorRead(m)
    \/ \E m \in 1..MaxMonitors : MonitorCloseAcquire(m)
    \/ \E m \in 1..MaxMonitors : MonitorCloseBody(m)

SpecLock == Init /\ [][NextLock]_vars

\* the calls made under the lock return, and a thread that waits for the
\* lock gets it when the lock is free again and again: every holder lets
\* go within one critical section and a monitor sleeps 60 s between two
\* requests
SpecLockFair ==
    /\ SpecLock
    /\ \A c \in 1..MaxCalls :
          SF_vars(CallerAcquire(c)) /\ WF_vars(CallerBody(c))
    /\ \A m \in 1..MaxMonitors :
          /\ SF_vars(MonitorAcquire(m)) /\ WF_vars(MonitorRead(m))
          /\ SF_vars(MonitorCloseAcquire(m)) /\ WF_vars(MonitorCloseBody(m))

\* the thread is about to request the lock
Requesting(thread) ==
    IF thread.kind = "caller"
    THEN thread.n \in DOMAIN callers /\ callers[thread.n].pc = "acquire"
    ELSE /\ thread.n \in DOMAIN monitors
         /\ monitors[thread.n].pc \in Polling \cup {"close"}

\* the thread is inside a critical section
InCriticalSection(thread) ==
    IF thread.kind = "caller"
    THEN thread.n \in DOMAIN callers /\ callers[thread.n].pc = "locked"
    ELSE /\ thread.n \in DOMAIN monitors
         /\ monitors[thread.n].pc \in {"read", "closing"}

Threads ==
    {CallerThread(c) : c \in 1..MaxCalls}
        \cup {MonitorThread(m) : m \in 1..MaxMonitors}

\* C35: the registry lock cannot deadlock: no thread requests the lock
\* while it holds it, a thread holds the lock exactly while it is inside a
\* critical section, so every path out of one releases it, an exception of
\* close_trade included, and every thread that requests the lock
\* eventually gets it, the calls made under the lock returning
C35_LockCannotDeadlock ==
    /\ [](\A t \in Threads :
             /\ Requesting(t) => lock # Some(t)
             /\ InCriticalSection(t) <=> lock = Some(t))
    /\ \A t \in Threads : Requesting(t) ~> InCriticalSection(t)

\* a close_trade call has raised inside its critical section, the lock is
\* free, and another thread has got it since
C35_Witness ==
    /\ \E c \in DOMAIN callers : callers[c].pc = "raised"
    /\ \E m \in DOMAIN monitors :
          monitors[m].pc = "read" /\ lock = Some(MonitorThread(m))

====
